---- MODULE Spec2Model ----
(***************************************************************************)
(* Staircase Heartbeat Discrimination Task: the staircase phase of         *)
(* run_s_hdt (src/task_main/s_hdt.py) and the adaptive staircase objects   *)
(* it drives.  The staircases are psychopy data.StairHandler objects       *)
(* built at s_hdt.py:170-202 with stepType='lin', applyInitialRule=False;  *)
(* their next()/addResponse() are modelled as that class computes them     *)
(* (the module the docstring at s_hdt.py:168 points to).                   *)
(*                                                                         *)
(* Names of the natural-language specification and the state they read:    *)
(*   currentValue   = _nextIntensity        direction = currentDirection   *)
(*   reversalCount  = len(reversalIntensities)                             *)
(*   trialsRun      = len(data)   (responses applied, repeats excluded)    *)
(***************************************************************************)
EXTENDS Integers, Sequences, FiniteSets, TLC

\* ---- configuration of staircase_set (s_hdt.py:170-202) ----
NTrials == 15
NReversals == 3
StepSize == 50
NUp == 2
NDown == 2
MinVal == 0
MaxVal == 1000
StartVals == <<400, 100, 400, 100>>
StairNames == <<"400_1", "100_1", "400_2", "100_2">>

\* How many staircases of staircase_set, from the first, a session administers
\* in the model.
NumStairs == 2

Stairs == 1..NumStairs

\* ---- response coding of run_staircase_trial ----
Buttons == <<"before", "same time", "after">>
\* Variant of Codes: the codes of 'before' and 'after' exchanged.
CodesSwapped == <<1, -1, 0>>

Codes == <<0, -1, 1>>
REPEAT == -1
INCREASE == 0
DECREASE == 1

\* Confidence values a participant confirms (get_numeric_input returns an
\* integer in 0..100); the model draws from the two ends of the range.
Confidences == {0, 100}

\* Slider positions a participant confirms in the post-task questionnaire.
Ratings == {20, 80}

\* The participant of a session.  One staircase is answered freely: every
\* button at every trial.  In each other staircase the answers follow one of
\* these patterns, repeated from the first trial on (entries index Buttons):
\* always 'before', always 'same time', always 'after', and the pairs
\* 'before', 'before', 'after', 'after'.
Scripts == {"before", "same time", "after", "pairs"}

Pattern(name) ==
    CASE name = "before" -> <<1>>
      [] name = "same time" -> <<2>>
      [] name = "after" -> <<3>>
      [] OTHER -> <<1, 1, 3, 3>>

VARIABLES
    stairs,         \* staircase_set: index -> StairHandler state
    index,          \* loop variable of "for index, staircase in enumerate(...)" (1-based)
    trial,          \* loop variable of "for trial in range(staircase.nTrials)"
    pc,             \* position of run_s_hdt
    current_delay,  \* value returned by the last staircase.next()
    button,         \* label returned by the last run_staircase_trial
    response_code,  \* code returned by the last run_staircase_trial
    winOpen,        \* the display window has not been closed
    logCount,       \* rows written to the log file, per staircase name
    lastRow,        \* the row written last
    log,            \* the rows of the log file, first two columns, in order
    question,       \* post-task questions already logged
    free,           \* the staircase whose trials the participant answers freely
    script,         \* the answer pattern followed in each other staircase
    \* resources of the session
    integrated,     \* is_integrated_external
    serOpen,        \* the serial port ser is open
    csvOpen,        \* the log file object csv_file is open
    \* one trial of run_staircase_trial / run_set_delay_trial
    hwpc,           \* position inside the trial function
    trialDelay,     \* its argument current_delay
    wire,           \* what has been written to the serial port, in order
    lastRead,       \* what the last ser.read(6) returned
    \* get_numeric_input
    inpc,           \* position of the prompt
    input_text,     \* the digits in the input box
    inputResult,    \* the value returned
    rejected,       \* the last key was an ENTER that was refused
    \* log file naming over the sessions of one participant
    baseExists,     \* <base>.tsv is in the directory
    suffixes,       \* the one-character suffixes c of the files <base>_c.tsv
    chosen,         \* suffix of the name chosen by the last session
    collided,       \* the name chosen by the last session named an existing file
    removed,        \* files removed from the directory by hand
    \* the training loop
    trainIndex,     \* loop variable i of "for i, delay in enumerate(train_values)"
    trainDelay,     \* its loop variable delay
    trainCount      \* 'Training' rows written

\* The state of the staircase phase.
sessionVars == <<stairs, index, trial, pc, current_delay, button, response_code,
                 winOpen, logCount, lastRow, log, question, free, script>>

resourceVars == <<integrated, serOpen, csvOpen>>

trialVars == <<hwpc, trialDelay, wire, lastRead>>

inputVars == <<inpc, input_text, inputResult, rejected>>

namingVars == <<baseExists, suffixes, chosen, collided, removed>>

trainingVars == <<trainIndex, trainDelay, trainCount>>

\* What the staircase loop itself never touches.
aux == <<resourceVars, trialVars, inputVars, namingVars, trainingVars>>

vars == <<sessionVars, aux>>

\* ---- StairHandler ----

NewStair(startVal) ==
    [ nextIntensity    |-> startVal,
      currentDirection |-> "start",
      correctCounter   |-> 0,
      nReversals       |-> 0,     \* len(reversalIntensities)
      nIntensities     |-> 0,     \* len(intensities)
      nData            |-> 0,     \* len(data)
      lastData         |-> "none",\* data[-1]
      finished         |-> FALSE ]

\* Variant of StairNext: the read takes a step up.
StairNextAdvances(s) ==
    [s EXCEPT !.nIntensities = @ + 1,
              !.nextIntensity = IF @ + StepSize > MaxVal THEN MaxVal ELSE @ + StepSize]

\* StairHandler.next() while not finished: the intensity to present is
\* appended to intensities and returned; nothing else moves.  (On a finished
\* staircase next() raises StopIteration; run_s_hdt tests finished first.)
StairNext(s) == [s EXCEPT !.nIntensities = @ + 1]

\* Variant of CountResponse: the run not restarted when the result changes.
CountResponseNoRestart(s, result) ==
    IF result = 1 THEN s.correctCounter + 1 ELSE s.correctCounter - 1

\* The run counter after data.append(result): a run of equal results is
\* extended, anything else restarts it at +1 (result 1) or -1 (result 0).
CountResponse(s, result) ==
    LET onRun == s.nData >= 1 /\ s.lastData = result
    IN  IF result = 1
        THEN (IF onRun THEN s.correctCounter + 1 ELSE 1)
        ELSE (IF onRun THEN s.correctCounter - 1 ELSE -1)

\* Direction after the response: nDown results of 1 in a row send the value
\* down, nUp results of 0 in a row send it up, otherwise it is kept.
NewDirection(s, cc) ==
    IF cc >= NDown THEN "down"
    ELSE IF cc <= -NUp THEN "up"
    ELSE s.currentDirection

\* Variant of IsReversal: every crossing counted, also one that keeps the
\* direction.
IsReversalAnyCrossing(s, cc) ==
    \/ cc >= NDown /\ s.currentDirection # "start"
    \/ cc <= -NUp /\ s.currentDirection # "start"

\* Variant of IsReversal: the first crossing counted as a reversal.
IsReversalCountsFirst(s, cc) ==
    \/ cc >= NDown /\ s.currentDirection # "down"
    \/ cc <= -NUp /\ s.currentDirection # "up"

\* A reversal: a threshold crossing whose direction differs from the one
\* before it; the very first crossing ('start') is none.
IsReversal(s, cc) ==
    \/ cc >= NDown /\ s.currentDirection \notin {"start", "down"}
    \/ cc <= -NUp /\ s.currentDirection \notin {"start", "up"}

\* Variant of IntensityInc: the step taken with the wrong sign.
IntensityIncWrongSign(v) == IF v - StepSize < MinVal THEN MinVal ELSE v - StepSize

\* Variant of IntensityDec: the lower clamp left out.
IntensityDecNoClamp(v) == v - StepSize

\* _intensityInc / _intensityDec with stepType 'lin', clamped to maxVal / minVal.
IntensityInc(v) == IF v + StepSize > MaxVal THEN MaxVal ELSE v + StepSize

IntensityDec(v) == IF v - StepSize < MinVal THEN MinVal ELSE v - StepSize

\* The termination test of calculateNextIntensity.
IsFinished(nRev, nInt) == nRev >= NReversals /\ nInt >= NTrials

\* StairHandler.addResponse(result) followed by calculateNextIntensity().
AddResponse(s, result) ==
    LET cc   == CountResponse(s, result)
        rev  == IsReversal(s, cc)
        nRev == IF rev THEN s.nReversals + 1 ELSE s.nReversals
    IN  [ nextIntensity    |-> IF cc >= NDown THEN IntensityDec(s.nextIntensity)
                               ELSE IF cc <= -NUp THEN IntensityInc(s.nextIntensity)
                               ELSE s.nextIntensity,
          currentDirection |-> NewDirection(s, cc),
          correctCounter   |-> IF cc >= NDown \/ cc <= -NUp THEN 0 ELSE cc,
          nReversals       |-> nRev,
          nIntensities     |-> s.nIntensities,
          nData            |-> s.nData + 1,
          lastData         |-> result,
          finished         |-> s.finished \/ IsFinished(nRev, s.nIntensities) ]

\* ---- run_s_hdt, staircase phase ----

\* The two rows written when the log file is created: the participant's id
\* and the column names (first two cells of each).
HeaderRows ==
    <<[name |-> "Participant ID", trial |-> "participant_id"],
      [name |-> "Staircase_name", trial |-> "Trial"]>>

\* The first two cells of a row, as kept in log.
Cells(row) == [name |-> row.name, trial |-> row.trial]

NoRow == [name |-> "none", trial |-> 0, delay |-> 0, button |-> "none",
          code |-> 0, confidence |-> 0]

\* The resources as run_s_hdt leaves them before the first trial: the serial
\* port opened when the session is integrated with the device (s_hdt.py:76-90),
\* the log file closed again after the header rows (s_hdt.py:130-137).
ResourcesInit(ext) ==
    /\ integrated = ext
    /\ serOpen = ext
    /\ csvOpen = FALSE

\* No trial function, no confidence prompt and no file naming under way.
TrialIdle ==
    /\ hwpc = "idle"
    /\ trialDelay = [value |-> 0, float |-> FALSE]
    /\ wire = << >>
    /\ lastRead = ""

InputIdle ==
    /\ inpc = "idle"
    /\ input_text = << >>
    /\ inputResult = -1
    /\ rejected = FALSE

NamingIdle ==
    /\ baseExists = FALSE
    /\ suffixes = {}
    /\ chosen = "none"
    /\ collided = FALSE
    /\ removed = 0

\* The training loop not entered.
TrainingIdle ==
    /\ trainIndex = 0
    /\ trainDelay = 0
    /\ trainCount = 0

\* The session at the head of "for index, staircase in enumerate(staircase_set)":
\* the staircases as constructed, nothing of the phase logged yet, the device
\* connected (is_integrated_external at its default).
Init ==
    /\ stairs = [k \in Stairs |-> NewStair(StartVals[k])]
    /\ index = 1
    /\ trial = 0
    /\ pc = "loop"
    /\ current_delay = 0
    /\ button = "none"
    /\ response_code = 0
    /\ winOpen = TRUE
    /\ logCount = [k \in Stairs |-> 0]
    /\ lastRow = NoRow
    /\ log = HeaderRows
    /\ question = 0
    /\ free \in Stairs
    /\ script \in [Stairs -> Scripts]
    /\ script[free] = "before"
    /\ ResourcesInit(TRUE)
    /\ TrialIdle /\ InputIdle /\ NamingIdle /\ TrainingIdle

\* Buttons the participant may click at iteration t (0-based) of staircase k.
Answers(k, t) ==
    IF k = free THEN 1..3
    ELSE {Pattern(script[k])[(t % Len(Pattern(script[k]))) + 1]}

\* Variant of LoopContinues: one more iteration, finished not consulted.
LoopContinuesUnchecked(k, t) == t <= NTrials

\* Variant of LoopContinues: the range one iteration short.
LoopContinuesShort(k, t) == t < NTrials - 1 /\ ~stairs[k].finished

\* The inner loop goes on: range(nTrials) is not exhausted and the staircase
\* does not report finished.
LoopContinues(k, t) == t < NTrials /\ ~stairs[k].finished

\* Top of an iteration: staircase.next() and the stimulus of
\* run_staircase_trial.
BeginTrial ==
    /\ pc = "loop"
    /\ LoopContinues(index, trial)
    /\ stairs' = [stairs EXCEPT ![index] = StairNext(@)]
    /\ current_delay' = stairs[index].nextIntensity
    /\ pc' = "trial"
    /\ UNCHANGED <<index, trial, button, response_code, winOpen, logCount,
                   lastRow, log, question, free, script, aux>>

\* Variant of ApplyCode: addResponse called whatever the code.
ApplyCodeAlways(s, code) == AddResponse(s, code)

\* What the orchestrator does with the returned code (s_hdt.py:316-324).
ApplyCode(s, code) == IF code = -1 THEN s ELSE AddResponse(s, code)

\* Variant of Respond: the response credited to the first staircase of the
\* set instead of the current one.
RespondFirstStair ==
    /\ pc = "trial"
    /\ \E b \in Answers(index, trial) :
        /\ button' = Buttons[b]
        /\ response_code' = Codes[b]
        /\ stairs' = [stairs EXCEPT ![1] = ApplyCode(@, Codes[b])]
    /\ pc' = "conf"
    /\ UNCHANGED <<index, trial, current_delay, winOpen, logCount, lastRow, log,
                   question, free, script, aux>>

\* The participant clicks one of the three buttons; run_staircase_trial
\* returns (label, code) and the code is applied to the staircase.
Respond ==
    /\ pc = "trial"
    /\ \E b \in Answers(index, trial) :
        /\ button' = Buttons[b]
        /\ response_code' = Codes[b]
        /\ stairs' = [stairs EXCEPT ![index] = ApplyCode(@, Codes[b])]
    /\ pc' = "conf"
    /\ UNCHANGED <<index, trial, current_delay, winOpen, logCount, lastRow, log,
                   question, free, script, aux>>

\* Variant of TrialRow: the row numbered by the responses the staircase has
\* counted instead of the loop index.
TrialRowCountsResponses(c) ==
    [name |-> StairNames[index], trial |-> stairs[index].nData,
     delay |-> current_delay,
     button |-> button, code |-> response_code, confidence |-> c]

\* Variant of TrialRow: the staircase's value at the time of writing logged as
\* the delay.
TrialRowValueNow(c) ==
    [name |-> StairNames[index], trial |-> trial + 1,
     delay |-> stairs[index].nextIntensity,
     button |-> button, code |-> response_code, confidence |-> c]

\* The row written after a staircase trial (s_hdt.py:331).
TrialRow(c) ==
    [name |-> StairNames[index], trial |-> trial + 1, delay |-> current_delay,
     button |-> button, code |-> response_code, confidence |-> c]

\* get_numeric_input returns a confirmed confidence; the row is appended to
\* the log file and the for loop advances.
Confidence ==
    /\ pc = "conf"
    /\ \E c \in Confidences : lastRow' = TrialRow(c)
    /\ log' = Append(log, Cells(lastRow'))
    /\ logCount' = [logCount EXCEPT ![index] = @ + 1]
    /\ trial' = trial + 1
    /\ pc' = "loop"
    /\ UNCHANGED <<stairs, index, current_delay, button, response_code, winOpen,
                   question, free, script, aux>>

\* Variant of LoopExit: the next staircase started without the pause.
LoopExitSkipsPause ==
    /\ pc = "loop"
    /\ ~LoopContinues(index, trial)
    /\ IF index < NumStairs
       THEN index' = index + 1 /\ trial' = 0 /\ pc' = "loop"
       ELSE index' = index /\ trial' = trial /\ pc' = "post"
    /\ UNCHANGED <<stairs, current_delay, button, response_code,
                   winOpen, logCount, lastRow, log, question, free, script, aux>>

\* The inner loop ends: range exhausted, or staircase.finished at the top.
\* With another staircase to come the session waits for ENTER
\* (wait_for_key_press), otherwise it goes on to the questionnaire.
LoopExit ==
    /\ pc = "loop"
    /\ ~LoopContinues(index, trial)
    /\ pc' = IF index < NumStairs THEN "between" ELSE "post"
    /\ UNCHANGED <<stairs, index, trial, current_delay, button, response_code,
                   winOpen, logCount, lastRow, log, question, free, script, aux>>

\* Variant of Continue: the next staircase takes over the value the one
\* before it ended at.
ContinueCarriesValue ==
    /\ pc = "between"
    /\ index' = index + 1
    /\ trial' = 0
    /\ pc' = "loop"
    /\ stairs' = [stairs EXCEPT ![index + 1].nextIntensity = stairs[index].nextIntensity]
    /\ UNCHANGED <<current_delay, button, response_code, winOpen,
                   logCount, lastRow, log, question, free, script, aux>>

\* Variant of Continue: the session goes back to the training loop.
ContinueToTraining ==
    /\ pc = "between"
    /\ index' = index + 1
    /\ trial' = 0
    /\ pc' = "train"
    /\ UNCHANGED <<stairs, current_delay, button, response_code, winOpen,
                   logCount, lastRow, log, question, free, script, aux>>

\* Variant of Continue: the loop over the staircases does not move on.
ContinueSameStaircase ==
    /\ pc = "between"
    /\ index' = index
    /\ trial' = trial
    /\ pc' = "loop"
    /\ UNCHANGED <<stairs, current_delay, button, response_code, winOpen,
                   logCount, lastRow, log, question, free, script, aux>>

\* ENTER at the pause between two staircases: the next staircase starts.
Continue ==
    /\ pc = "between"
    /\ index' = index + 1
    /\ trial' = 0
    /\ pc' = "loop"
    /\ UNCHANGED <<stairs, current_delay, button, response_code, winOpen,
                   logCount, lastRow, log, question, free, script, aux>>

\* get_post_task_qs: the questions in order, one row for each.
QuestionLabels == <<"TaskGeneral", "Difficulty", "Breathless">>

PostQuestion ==
    /\ pc = "post"
    /\ question < Len(QuestionLabels)
    /\ question' = question + 1
    /\ \E r \in Ratings :
        lastRow' = [name |-> "Post_task_question", trial |-> QuestionLabels[question + 1],
                    delay |-> ToString(r), button |-> "NA", code |-> "NA",
                    confidence |-> "NA"]
    /\ log' = Append(log, Cells(lastRow'))
    /\ UNCHANGED <<stairs, index, trial, pc, current_delay, button, response_code,
                   winOpen, logCount, free, script, aux>>

\* 'Task complete' and win.close().
Finish ==
    /\ pc = "post"
    /\ question = Len(QuestionLabels)
    /\ pc' = "done"
    /\ winOpen' = FALSE
    /\ UNCHANGED <<stairs, index, trial, current_delay, button, response_code,
                   logCount, lastRow, log, question, free, script, aux>>

Next ==
    \/ BeginTrial
    \/ Respond
    \/ Confidence
    \/ LoopExit
    \/ Continue
    \/ PostQuestion
    \/ Finish

\* Sessions in which the operator never presses Escape.
Spec == Init /\ [][Next]_vars

\* ---- cancellation ----

\* Escape found by event.getKeys() at the top of an iteration of the inner
\* loop: csv_file.close(), win.close() and break (s_hdt.py:301-307).  The
\* break leaves the inner loop only.
EscapeInLoop ==
    /\ pc = "loop"
    /\ trial < NTrials
    /\ csvOpen' = FALSE
    /\ winOpen' = FALSE
    /\ pc' = "escaped"
    /\ UNCHANGED <<stairs, index, trial, current_delay, button, response_code,
                   logCount, lastRow, log, question, free, script,
                   integrated, serOpen, trialVars, inputVars, namingVars,
                   trainingVars>>

\* After that break run_s_hdt goes on at s_hdt.py:335 with the window closed:
\* it builds a text stimulus on it and draws.  What the display library does
\* with a closed window is not this program's: either the call raises and the
\* session dies ...
ClosedWindowRaises ==
    /\ pc = "escaped"
    /\ pc' = "crash"
    /\ UNCHANGED <<stairs, index, trial, current_delay, button, response_code,
                   winOpen, logCount, lastRow, log, question, free, script, aux>>

\* ... or it does nothing and the session goes on to the pause before the next
\* staircase, or to the questionnaire after the last one.
ClosedWindowIgnored ==
    /\ pc = "escaped"
    /\ pc' = IF index < NumStairs THEN "between" ELSE "post"
    /\ UNCHANGED <<stairs, index, trial, current_delay, button, response_code,
                   winOpen, logCount, lastRow, log, question, free, script, aux>>

\* Escape found at one of the other wait points (the acknowledgment wait and
\* the response wait of run_staircase_trial, get_numeric_input,
\* wait_for_key_press, get_post_task_qs): core.quit() ends the process on
\* the spot; the program closes nothing before it.
EscapeQuit ==
    /\ \/ pc \in {"trial", "conf", "between"}
       \/ pc = "post" /\ question < Len(QuestionLabels)
    /\ pc' = "quit"
    /\ UNCHANGED <<stairs, index, trial, current_delay, button, response_code,
                   winOpen, logCount, lastRow, log, question, free, script, aux>>

\* A session whose participant follows a pattern in every staircase, with or
\* without the device.
InitCancel ==
    /\ stairs = [k \in Stairs |-> NewStair(StartVals[k])]
    /\ index = 1
    /\ trial = 0
    /\ pc = "loop"
    /\ current_delay = 0
    /\ button = "none"
    /\ response_code = 0
    /\ winOpen = TRUE
    /\ logCount = [k \in Stairs |-> 0]
    /\ lastRow = NoRow
    /\ log = HeaderRows
    /\ question = 0
    /\ free = 0
    /\ script \in [Stairs -> Scripts]
    /\ \E ext \in BOOLEAN : ResourcesInit(ext)
    /\ TrialIdle /\ InputIdle /\ NamingIdle /\ TrainingIdle

NextCancel ==
    \/ BeginTrial
    \/ Respond
    \/ Confidence
    \/ LoopExit
    \/ Continue
    \/ PostQuestion
    \/ Finish
    \/ EscapeInLoop
    \/ ClosedWindowRaises
    \/ ClosedWindowIgnored
    \/ EscapeQuit

\* Sessions in which the operator may press Escape at any time.
SpecCancel == InitCancel /\ [][NextCancel]_vars

\* The session variables before the first trial, every staircase answered
\* 'before'; the state the parts below leave alone.
SessionAtStart ==
    /\ stairs = [k \in Stairs |-> NewStair(StartVals[k])]
    /\ index = 1
    /\ trial = 0
    /\ pc = "loop"
    /\ current_delay = 0
    /\ button = "none"
    /\ response_code = 0
    /\ winOpen = TRUE
    /\ logCount = [k \in Stairs |-> 0]
    /\ lastRow = NoRow
    /\ log = HeaderRows
    /\ question = 0
    /\ free = 0
    /\ script = [k \in Stairs |-> "before"]

\* ---- one trial with the device ----

\* The delays a staircase can hand to run_staircase_trial: floats, since
\* startVal, minVal and maxVal are given as 400.0, 100.0, 0.0, 1000.0.
StairDelays ==
    {[value |-> v, float |-> TRUE] : v \in {w \in MinVal..MaxVal : w % StepSize = 0}}

\* The delays of the training trials: random.choice(range(0, 601, 50)), ints.
TrainingDelays ==
    {[value |-> v, float |-> FALSE] : v \in {w \in 0..600 : w % 50 = 0}}

\* str(current_delay): a float prints with its fractional part.
Str(d) == IF d.float THEN ToString(d.value) \o ".0" ELSE ToString(d.value)

\* 'DELAY' + str(current_delay) + ';'
DelayCommand(d) == "DELAY" \o Str(d) \o ";"

\* What ser.read(6) may give back: nothing within the timeout, the
\* acknowledgment, an acknowledgment cut by a line end, something else.
Reads == {"", "ENDED;", "ENDED\n", "\nENDED", "READY;"}

\* Variant of Strip: a token cut by a line end taken for the whole token.
StripLoose(data) == IF data \in {"ENDED\n", "\nENDED"} THEN "ENDED;" ELSE data

\* received_data.strip()
Strip(data) == IF data \in {"ENDED\n", "\nENDED"} THEN "ENDED" ELSE data

\* run_staircase_trial or run_set_delay_trial is called with a delay; heart
\* image and fixation cross are shown.
StartTrial ==
    /\ hwpc = "idle"
    /\ trialDelay' \in StairDelays \cup TrainingDelays
    /\ wire' = << >>
    /\ lastRead' = ""
    /\ hwpc' = "fixation"
    /\ UNCHANGED <<sessionVars, trainingVars, resourceVars, inputVars, namingVars>>

\* ser.write(delay_command)
SendDelay ==
    /\ hwpc = "fixation"
    /\ integrated
    /\ wire' = Append(wire, DelayCommand(trialDelay))
    /\ hwpc' = "delay_sent"
    /\ UNCHANGED <<sessionVars, trainingVars, resourceVars, trialDelay, lastRead, inputVars,
                   namingVars>>

\* ser.write(start_command)
SendStart ==
    /\ hwpc = "delay_sent"
    /\ wire' = Append(wire, "START;")
    /\ hwpc' = "waiting"
    /\ UNCHANGED <<sessionVars, trainingVars, resourceVars, trialDelay, lastRead, inputVars,
                   namingVars>>

\* One round of the wait loop in which Escape is not pressed: read, compare,
\* leave the loop on the acknowledgment.
ReadSerial ==
    /\ hwpc = "waiting"
    /\ \E data \in Reads :
        /\ lastRead' = data
        /\ hwpc' = IF Strip(data) = "ENDED;" THEN "prompt" ELSE "waiting"
    /\ UNCHANGED <<sessionVars, trainingVars, resourceVars, trialDelay, wire, inputVars,
                   namingVars>>

\* Without the device the trial waits two seconds and goes on to the prompt.
SkipDevice ==
    /\ hwpc = "fixation"
    /\ ~integrated
    /\ hwpc' = "prompt"
    /\ UNCHANGED <<sessionVars, trainingVars, resourceVars, trialDelay, wire, lastRead,
                   inputVars, namingVars>>

\* The participant clicks a button of the prompt.
ClickButton ==
    /\ hwpc = "prompt"
    /\ hwpc' = "answered"
    /\ UNCHANGED <<sessionVars, trainingVars, resourceVars, trialDelay, wire, lastRead,
                   inputVars, namingVars>>

\* The trial function returns its (label, code).
ReturnTrial ==
    /\ hwpc = "answered"
    /\ hwpc' = "idle"
    /\ UNCHANGED <<sessionVars, trainingVars, resourceVars, trialDelay, wire, lastRead,
                   inputVars, namingVars>>

\* Escape in the wait loop or at the prompt: core.quit().
EscapeInTrial ==
    /\ hwpc \in {"waiting", "prompt"}
    /\ hwpc' = "quit"
    /\ UNCHANGED <<sessionVars, trainingVars, resourceVars, trialDelay, wire, lastRead,
                   inputVars, namingVars>>

InitTrial ==
    /\ SessionAtStart
    /\ \E ext \in BOOLEAN : ResourcesInit(ext)
    /\ TrialIdle /\ InputIdle /\ NamingIdle /\ TrainingIdle

NextTrial ==
    \/ StartTrial
    \/ SendDelay
    \/ SendStart
    \/ ReadSerial
    \/ SkipDevice
    \/ ClickButton
    \/ ReturnTrial
    \/ EscapeInTrial

\* Trials one after the other, training or staircase, with or without the
\* device.
SpecTrial == InitTrial /\ [][NextTrial]_vars

\* ---- the confidence prompt ----

\* The digit keys of the key list; a keypad key num_d is mapped to the same
\* digit d by keypad_mapping.
DigitKeys == 0..9

\* input_text.isdigit(): at least one character, all of them digits (the key
\* list lets nothing but digits into the text).
IsDigit(text) == Len(text) > 0 /\ \A i \in 1..Len(text) : text[i] \in DigitKeys

\* int(input_text): decimal value, leading zeros allowed.
RECURSIVE IntOf(_)
IntOf(text) ==
    IF text = << >> THEN 0
    ELSE 10 * IntOf(SubSeq(text, 1, Len(text) - 1)) + text[Len(text)]

\* Variant of ValidEntry: the range not tested.
ValidEntryAnyNumber(text) == IsDigit(text)

\* The test of the Enter key: input_text.isdigit() and 0 <= int(input_text) <= 100
ValidEntry(text) == IsDigit(text) /\ 0 <= IntOf(text) /\ IntOf(text) <= 100

\* get_numeric_input is called: empty text.
OpenPrompt ==
    /\ inpc = "idle"
    /\ inpc' = "prompt"
    /\ input_text' = << >>
    /\ inputResult' = -1
    /\ rejected' = FALSE
    /\ UNCHANGED <<sessionVars, trainingVars, resourceVars, trialVars, namingVars>>

\* A digit key, main keyboard or keypad: appended while the text has fewer
\* than 3 characters.
PressDigit ==
    /\ inpc = "prompt"
    /\ \E d \in DigitKeys :
        input_text' = IF Len(input_text) < 3 THEN Append(input_text, d) ELSE input_text
    /\ UNCHANGED <<sessionVars, trainingVars, resourceVars, trialVars, namingVars, inpc,
                   inputResult, rejected>>

\* Backspace: input_text[:-1], which leaves an empty text empty.
PressBackspace ==
    /\ inpc = "prompt"
    /\ input_text' = SubSeq(input_text, 1, Len(input_text) - 1)
    /\ UNCHANGED <<sessionVars, trainingVars, resourceVars, trialVars, namingVars, inpc,
                   inputResult, rejected>>

\* Enter: a valid entry is returned as an int, anything else brings up the
\* error message.
PressReturn ==
    /\ inpc = "prompt"
    /\ IF ValidEntry(input_text)
       THEN /\ inpc' = "returned"
            /\ inputResult' = IntOf(input_text)
            /\ rejected' = rejected
       ELSE /\ inpc' = "error"
            /\ inputResult' = inputResult
            /\ rejected' = TRUE
    /\ UNCHANGED <<sessionVars, trainingVars, resourceVars, trialVars, namingVars, input_text>>

\* The error message has been drawn for its 60 frames; the prompt goes on with
\* the text as it was.
ErrorShown ==
    /\ inpc = "error"
    /\ inpc' = "prompt"
    /\ UNCHANGED <<sessionVars, trainingVars, resourceVars, trialVars, namingVars, input_text,
                   inputResult, rejected>>

\* Escape at the prompt: core.quit().
EscapeInPrompt ==
    /\ inpc = "prompt"
    /\ inpc' = "quit"
    /\ UNCHANGED <<sessionVars, trainingVars, resourceVars, trialVars, namingVars, input_text,
                   inputResult, rejected>>

\* The caller takes the value (confidence = get_numeric_input(win)).
TakeConfidence ==
    /\ inpc = "returned"
    /\ inpc' = "idle"
    /\ UNCHANGED <<sessionVars, trainingVars, resourceVars, trialVars, namingVars, input_text,
                   inputResult, rejected>>

InitInput ==
    /\ SessionAtStart
    /\ ResourcesInit(TRUE)
    /\ TrialIdle /\ InputIdle /\ NamingIdle /\ TrainingIdle

NextInput ==
    \/ OpenPrompt
    \/ PressDigit
    \/ PressBackspace
    \/ PressReturn
    \/ ErrorShown
    \/ EscapeInPrompt
    \/ TakeConfidence

\* Calls of the confidence prompt, any keys of its key list pressed one at a
\* time.
SpecInput == InitInput /\ [][NextInput]_vars

\* ---- the name of the log file ----

\* Files the operator may take out of the participant's directory between
\* sessions.
MaxRemoved == 2

\* The letters, in the order of their character codes from ord('a') on.
Alphabet ==
    <<"a", "b", "c", "d", "e", "f", "g", "h", "i", "j", "k", "l", "m",
      "n", "o", "p", "q", "r", "s", "t", "u", "v", "w", "x", "y", "z">>

\* suffix.isalpha() for a suffix of one character (the program writes lower
\* case only).
IsAlpha(ch) == \E i \in 1..Len(Alphabet) : Alphabet[i] = ch

\* ord(suffix.lower()) - ord('a') of a letter.
LetterIndex(ch) == (CHOOSE i \in 1..Len(Alphabet) : Alphabet[i] = ch) - 1

\* chr(ord('a') + i): the letters, and the character after 'z' is '{'.
Chr(i) == IF i < Len(Alphabet) THEN Alphabet[i + 1] ELSE "{"

\* max(indices)
SetMax(S) == CHOOSE m \in S : \A x \in S : x <= m

\* The suffix s_hdt.py works out when the base file exists.
NextSuffix(existing) ==
    LET indices == {LetterIndex(ch) : ch \in {c \in existing : IsAlpha(c)}}
        next_index == IF indices = {} THEN 0 ELSE SetMax(indices) + 1
    IN  Chr(next_index)

\* A session starts: the name is chosen, the file opened in append mode and
\* the header rows written, which creates the file if it was not there.
\* chosen = "" stands for the base name.
ChooseName ==
    /\ IF baseExists
       THEN /\ chosen' = NextSuffix(suffixes)
            /\ collided' = (NextSuffix(suffixes) \in suffixes)
            /\ suffixes' = suffixes \cup {NextSuffix(suffixes)}
            /\ baseExists' = baseExists
       ELSE /\ chosen' = ""
            /\ collided' = FALSE
            /\ baseExists' = TRUE
            /\ suffixes' = suffixes
    /\ UNCHANGED <<sessionVars, trainingVars, resourceVars, trialVars, inputVars, removed>>

\* Between sessions a file of the participant is moved away or deleted.
RemoveFile ==
    /\ removed < MaxRemoved
    /\ removed' = removed + 1
    /\ \/ baseExists /\ baseExists' = FALSE /\ suffixes' = suffixes
       \/ \E ch \in suffixes : suffixes' = suffixes \ {ch} /\ baseExists' = baseExists
    /\ UNCHANGED <<sessionVars, trainingVars, resourceVars, trialVars, inputVars, chosen, collided>>

InitNaming ==
    /\ SessionAtStart
    /\ ResourcesInit(TRUE)
    /\ TrialIdle /\ InputIdle /\ NamingIdle /\ TrainingIdle

NextNaming ==
    \/ ChooseName
    \/ RemoveFile

\* Sessions of one participant one after the other, each choosing its log
\* file name among the files the earlier ones left.
SpecNaming == InitNaming /\ [][NextNaming]_vars

\* ---- the whole session: log file, training, staircases, questionnaire ----

\* Length of train_values (random.choices(..., k=20)).
NTrain == 20

\* Variant of CreateLog: the file object left open after the header rows.
CreateLogLeftOpen ==
    /\ pc = "start"
    /\ log' = HeaderRows
    /\ csvOpen' = TRUE
    /\ pc' = "train"
    /\ UNCHANGED <<stairs, index, trial, current_delay, button, response_code,
                   winOpen, logCount, lastRow, question, free, script,
                   integrated, serOpen, trialVars, inputVars, namingVars,
                   trainingVars>>

\* The log file is opened, the participant row and the column names are
\* written and the file is closed (s_hdt.py:130-137); window, staircases and
\* instructions follow, up to the head of the training loop.
CreateLog ==
    /\ pc = "start"
    /\ log' = HeaderRows
    /\ csvOpen' = FALSE
    /\ pc' = "train"
    /\ UNCHANGED <<stairs, index, trial, current_delay, button, response_code,
                   winOpen, logCount, lastRow, question, free, script,
                   integrated, serOpen, trialVars, inputVars, namingVars,
                   trainingVars>>

\* One iteration of the training loop up to the return of
\* run_set_delay_trial: the delay is the next of train_values, the
\* participant clicks a button.
TrainTrial ==
    /\ pc = "train"
    /\ trainIndex < NTrain
    /\ \E d \in TrainingDelays : trainDelay' = d.value
    /\ \E b \in 1..3 :
        /\ button' = Buttons[b]
        /\ response_code' = Codes[b]
    /\ pc' = "train_conf"
    /\ UNCHANGED <<stairs, index, trial, current_delay, winOpen, logCount,
                   lastRow, log, question, free, script,
                   resourceVars, trialVars, inputVars, namingVars,
                   trainIndex, trainCount>>

\* The row written after a training trial (s_hdt.py:265).
TrainingRow(c) ==
    [name |-> "Training", trial |-> trainIndex + 1, delay |-> trainDelay,
     button |-> button, code |-> response_code, confidence |-> c]

\* Variant of TrainConfidence: the participant is asked after every
\* iteration, the first included.
TrainConfidenceAsksAlways ==
    /\ pc = "train_conf"
    /\ \E c \in Confidences : lastRow' = TrainingRow(c)
    /\ log' = Append(log, Cells(lastRow'))
    /\ trainCount' = trainCount + 1
    /\ pc' = "train_ask"
    /\ trainIndex' = trainIndex
    /\ UNCHANGED <<stairs, index, trial, current_delay, button, response_code,
                   winOpen, logCount, question, free, script,
                   resourceVars, trialVars, inputVars, namingVars, trainDelay>>

\* The confidence is confirmed and the row written; after the first
\* iteration the loop goes on by itself, after every later one the
\* participant is asked.
TrainConfidence ==
    /\ pc = "train_conf"
    /\ \E c \in Confidences : lastRow' = TrainingRow(c)
    /\ log' = Append(log, Cells(lastRow'))
    /\ trainCount' = trainCount + 1
    /\ IF trainIndex > 0
       THEN pc' = "train_ask" /\ trainIndex' = trainIndex
       ELSE pc' = "train" /\ trainIndex' = trainIndex + 1
    /\ UNCHANGED <<stairs, index, trial, current_delay, button, response_code,
                   winOpen, logCount, question, free, script,
                   resourceVars, trialVars, inputVars, namingVars, trainDelay>>

\* ask_run_another: 'stop' breaks out of the loop, 'again' lets it go on to
\* its next iteration.
TrainAsk ==
    /\ pc = "train_ask"
    /\ \E next_action \in {"again", "stop"} :
        IF next_action = "stop"
        THEN pc' = "loop" /\ trainIndex' = trainIndex
        ELSE pc' = "train" /\ trainIndex' = trainIndex + 1
    /\ UNCHANGED <<stairs, index, trial, current_delay, button, response_code,
                   winOpen, logCount, lastRow, log, question, free, script,
                   resourceVars, trialVars, inputVars, namingVars,
                   trainDelay, trainCount>>

\* train_values is used up: the staircase phase begins.
TrainEnd ==
    /\ pc = "train"
    /\ trainIndex = NTrain
    /\ pc' = "loop"
    /\ UNCHANGED <<stairs, index, trial, current_delay, button, response_code,
                   winOpen, logCount, lastRow, log, question, free, script, aux>>

\* A session from the creation of its log file on; the participant follows a
\* pattern in every staircase.
InitSession ==
    /\ stairs = [k \in Stairs |-> NewStair(StartVals[k])]
    /\ index = 1
    /\ trial = 0
    /\ pc = "start"
    /\ current_delay = 0
    /\ button = "none"
    /\ response_code = 0
    /\ winOpen = TRUE
    /\ logCount = [k \in Stairs |-> 0]
    /\ lastRow = NoRow
    /\ log = << >>
    /\ question = 0
    /\ free = 0
    /\ script \in [Stairs -> Scripts]
    /\ ResourcesInit(TRUE)
    /\ TrialIdle /\ InputIdle /\ NamingIdle /\ TrainingIdle

NextSession ==
    \/ CreateLog
    \/ TrainTrial
    \/ TrainConfidence
    \/ TrainAsk
    \/ TrainEnd
    \/ BeginTrial
    \/ Respond
    \/ Confidence
    \/ LoopExit
    \/ Continue
    \/ PostQuestion
    \/ Finish

\* Whole sessions in which the operator never presses Escape.
SpecSession == InitSession /\ [][NextSession]_vars

\* ---- properties ----

\* The four fields the specification calls the engine state of a staircase:
\* currentValue, direction, reversalCount, trialsRun.
Engine(s) == <<s.nextIntensity, s.currentDirection, s.nReversals, s.nData>>

\* A trial of staircase k has been started and its row is not written yet.
InFlight(k) == IF index = k /\ pc \in {"trial", "conf"} THEN 1 ELSE 0

\* C1: when the response of a staircase trial is REPEAT (-1), the step that
\* closes the trial leaves the staircase's counted trials and the loop's trial
\* index where they were, and the staircase still offers the delay just
\* presented.
C1_RepeatConsumesNothing ==
    [][(pc = "conf" /\ response_code = REPEAT /\ pc' = "loop")
        => /\ stairs'[index].nData = stairs[index].nData
           /\ stairs'[index].nextIntensity = current_delay
           /\ trial' = trial]_vars

\* C2: every step of a session other than a 'before' or 'after' answer, and so
\* every run of REPEAT trials of whatever length, leaves currentValue,
\* direction, reversalCount and trialsRun of every staircase as they were.
C2_RepeatLeavesEngine ==
    [][(~(pc = "trial" /\ response_code' # REPEAT))
        => \A k \in Stairs : Engine(stairs'[k]) = Engine(stairs[k])]_vars

\* C2 witness: two REPEAT trials in a row in the middle of a run.
C2_Witness ==
    /\ pc = "conf"
    /\ response_code = REPEAT
    /\ lastRow.name = StairNames[index]
    /\ lastRow.code = REPEAT
    /\ stairs[index].nData >= 3
    /\ stairs[index].currentDirection = "up"
    /\ stairs[index].nReversals = 1

C4_FinishedIffEitherCap ==
    \A k \in Stairs :
        stairs[k].finished <=> (stairs[k].nData >= NTrials \/ stairs[k].nReversals >= NReversals)

\* C5: finished is one-way: a finished staircase stays finished and its
\* currentValue, direction, reversalCount and trialsRun never change again.
C5_FinishedIsFinal ==
    [][\A k \in Stairs :
        stairs[k].finished
            => (stairs'[k].finished /\ Engine(stairs'[k]) = Engine(stairs[k]))]_vars

\* C5 witness: a later staircase is being run after an earlier one finished.
C5_Witness ==
    \E k \in Stairs : stairs[k].finished /\ index > k /\ pc = "conf" /\ response_code # REPEAT

\* C6: the value of every staircase, and every delay handed to a trial, lies
\* in [minValue, maxValue].
C6_ValueInBounds ==
    /\ \A k \in Stairs :
        MinVal <= stairs[k].nextIntensity /\ stairs[k].nextIntensity <= MaxVal
    /\ pc \in {"trial", "conf"} => (MinVal <= current_delay /\ current_delay <= MaxVal)

\* C6 witness: a downward step taken at the lower bound and clamped to it.
C6_Witness ==
    /\ pc = "conf"
    /\ current_delay = MinVal
    /\ response_code = DECREASE
    /\ stairs[index].correctCounter = 0
    /\ stairs[index].nextIntensity = MinVal

\* C7: the first threshold crossing of a staircase (direction still 'start')
\* moves the value by one step and sets the direction, and leaves the
\* reversal count at 0, whichever way it goes.
C7_FirstCrossingNoReversal ==
    [][\A k \in Stairs :
        (stairs[k].currentDirection = "start" /\ stairs'[k].currentDirection # "start")
            => /\ stairs'[k].nReversals = 0
               /\ stairs'[k].nextIntensity =
                    IF stairs'[k].currentDirection = "up"
                    THEN stairs[k].nextIntensity + StepSize
                    ELSE stairs[k].nextIntensity - StepSize]_vars

\* C7 witness: one staircase whose only crossing went up, another whose first
\* crossing went down.
C7_Witness ==
    /\ stairs[1].currentDirection = "up" /\ stairs[1].nReversals = 0
    /\ stairs[2].currentDirection = "down" /\ stairs[2].nReversals = 0
    /\ stairs[2].nData = 2

\* C8: the staircase starting at 400 (nUp = nDown = 2, step 50, bounds 0 and
\* 1000) answered INCREASE, INCREASE, DECREASE, DECREASE: the value is 400
\* after the first answer, 450 with no reversal after the second, and 400 with
\* one reversal after the fourth.
C8_WorkedExample ==
    (free # 1 /\ script[1] = "pairs")
        => /\ stairs[1].nData = 0 => stairs[1].nextIntensity = 400
           /\ stairs[1].nData = 1
                => (stairs[1].nextIntensity = 400 /\ stairs[1].nReversals = 0)
           /\ stairs[1].nData = 2
                => (stairs[1].nextIntensity = 450 /\ stairs[1].nReversals = 0)
           /\ stairs[1].nData = 4
                => (stairs[1].nextIntensity = 400 /\ stairs[1].nReversals = 1)

\* C8 witness: the fourth answer of that sequence has been applied.
C8_Witness ==
    /\ free # 1 /\ script[1] = "pairs"
    /\ index = 1 /\ pc = "conf" /\ trial = 3
    /\ stairs[1].nData = 4 /\ stairs[1].lastData = DECREASE

\* Staircase 1 answered INCREASE at every trial.
UniformIncrease == free # 1 /\ script[1] = "before"

\* C9: with staircase 1 answered INCREASE throughout, exactly 15 rows of
\* staircase 1 are in the log once staircase 2 is under way, and the value of
\* staircase 1 never decreases, and at every step (every second answer) goes
\* up by the step size unless it stands at the cap of 1000, where it stays.
C9_UniformIncrease ==
    /\ [](UniformIncrease /\ index >= 2 => logCount[1] = NTrials)
    /\ [][UniformIncrease =>
            /\ stairs'[1].nextIntensity >= stairs[1].nextIntensity
            /\ (stairs'[1].nData # stairs[1].nData /\ stairs'[1].correctCounter = 0)
                => \/ stairs'[1].nextIntensity > stairs[1].nextIntensity
                   \/ stairs[1].nextIntensity = MaxVal /\ stairs'[1].nextIntensity = MaxVal]_vars

\* C9 witness: the first trial of staircase 2 after the 15 of staircase 1.
C9_Witness ==
    /\ UniformIncrease
    /\ index = 2 /\ pc = "trial" /\ trial = 0
    /\ logCount[1] = NTrials
    /\ stairs[1].nextIntensity > StartVals[1]

\* C10: every staircase trial administered, repeated ones included, is logged
\* by exactly one row, written when the confidence is confirmed and before the
\* next trial starts; the row carries the staircase name, the delay presented,
\* the label, the code and the confidence; counted trials never exceed the
\* rows written.
C10_OneRowPerTrial ==
    /\ [](\A k \in Stairs :
            /\ logCount[k] + InFlight(k) = stairs[k].nIntensities
            /\ stairs[k].nData <= logCount[k] + InFlight(k))
    /\ [][\A k \in Stairs :
            logCount'[k] # logCount[k]
                => /\ k = index /\ pc = "conf" /\ pc' = "loop"
                   /\ logCount'[k] = logCount[k] + 1
                   /\ lastRow'.name = StairNames[k]
                   /\ lastRow'.delay = current_delay
                   /\ lastRow'.button = button
                   /\ lastRow'.code = response_code
                   /\ lastRow'.confidence \in Confidences
                   /\ (response_code = REPEAT => lastRow'.delay = stairs[k].nextIntensity)
                   /\ (response_code # REPEAT /\ stairs[k].correctCounter # 0
                        => lastRow'.delay = stairs[k].nextIntensity)]_vars

\* C10 witness: the row of a repeated trial has been written; the staircase
\* counts two trials, its log three rows.
C10_Witness ==
    /\ pc = "loop"
    /\ lastRow.name = StairNames[index]
    /\ lastRow.code = REPEAT
    /\ logCount[index] = 3
    /\ stairs[index].nData = 2

\* C11: once Escape has been observed at a check point the session is over: no
\* trial is under way and no pause or questionnaire is entered.  The cancel at
\* the top of a loop iteration is the one that closes the window while the
\* session is not done, so a closed window before "done" must mean the
\* session stands still (escaped, crashed or quit).
C11_CancelHalts ==
    (~winOpen /\ pc # "done") => pc \in {"escaped", "crash", "quit"}

\* C12: a session ended by Escape holds no open resource: log file, window
\* and serial port are all closed.
C12_CancelClosesAll ==
    pc \in {"escaped", "crash"} => (~csvOpen /\ ~winOpen /\ ~serOpen)

\* C13: next() and addResponse() are called on a staircase only while it is
\* not finished: every step that changes a staircase's engine state (its list
\* of presented intensities or its responses) starts with finished false.
C13_OnlyWhileRunning ==
    [][\A k \in Stairs : stairs'[k] # stairs[k] => ~stairs[k].finished]_vars

\* C13 witness: the check at the top of the loop finds the current staircase
\* finished.
C13_Witness == pc = "loop" /\ stairs[index].finished

\* C14: the staircases run one after the other in the configured order: the
\* index never goes back, and a trial or a log record of staircase k happens
\* only while k is the current staircase.
C14_StrictlySequential ==
    [][/\ index' >= index
       /\ \A k \in Stairs :
              (stairs'[k] # stairs[k] \/ logCount'[k] # logCount[k])
                  => (index = k /\ index' = k)]_vars

\* C14 witness: the second staircase is under way after all rows of the first.
C14_Witness ==
    /\ index = 2
    /\ pc = "conf"
    /\ logCount[1] = NTrials
    /\ logCount[2] > 0

\* C15: in a trial run with the device, once the runner waits for the
\* acknowledgment it has sent exactly DELAY<d>; with d the integer delay of the
\* trial and then START;, nothing else; and the prompt is up, or answered,
\* only after ENDED; has been read.
C15_DeviceProtocol ==
    (integrated /\ hwpc \in {"waiting", "prompt", "answered"})
        => /\ wire = <<"DELAY" \o ToString(trialDelay.value) \o ";", "START;">>
           /\ hwpc \in {"prompt", "answered"} => lastRead = "ENDED;"

\* C16: the confidence prompt returns only an integer of 0..100, and it is the
\* integer the text in the box stands for at the confirming Enter; Enter on an
\* empty or out-of-range text returns nothing, brings up the error message and
\* the prompt goes on with the text unchanged.
C16_ConfidenceInRange ==
    /\ [](inpc = "returned"
            => /\ inputResult \in 0..100
               /\ Len(input_text) > 0
               /\ inputResult = IntOf(input_text))
    /\ [](inpc = "error"
            => /\ inputResult = -1
               /\ (input_text = << >> \/ IntOf(input_text) > 100))
    /\ [][/\ (inpc = "prompt" /\ (input_text = << >> \/ IntOf(input_text) > 100))
              => inpc' \in {"prompt", "error", "quit"}
          /\ inpc' = "returned" => input_text' = input_text
          /\ inpc = "error" => (inpc' = "prompt" /\ input_text' = input_text)]_vars

\* C16 witness: 100 is returned by a prompt that has rejected an entry before.
C16_Witness ==
    /\ inpc = "returned"
    /\ rejected
    /\ inputResult = 100
    /\ Len(input_text) = 3

\* C17: the name chosen at session start is the base name or the base name
\* with a single letter, and names no file that was already there, however
\* many sessions came before.
C17_FreshLetterName ==
    chosen # "none" => (~collided /\ (chosen = "" \/ IsAlpha(chosen)))

\* C18: the row of a post-task question has 'NA' in its delay, button and
\* response-code fields and the rating in its confidence field.
C18_QuestionRow ==
    lastRow.name = "Post_task_question"
        => /\ lastRow.delay = "NA"
           /\ lastRow.button = "NA"
           /\ lastRow.code = "NA"
           /\ lastRow.confidence \in {ToString(r) : r \in Ratings}

\* C19: the reversal count of a staircase never goes down, and it goes up, by
\* one, in exactly the steps that change the direction from 'up' or 'down' to
\* the other; a first crossing, a crossing in the same direction, a response
\* below the threshold and a REPEAT leave it as it is.
C19_ReversalCount ==
    [][\A k \in Stairs :
        /\ stairs'[k].nReversals \in {stairs[k].nReversals, stairs[k].nReversals + 1}
        /\ stairs'[k].nReversals = stairs[k].nReversals + 1
            <=> /\ stairs[k].currentDirection \in {"up", "down"}
                /\ stairs'[k].currentDirection # stairs[k].currentDirection]_vars

\* C19 witness: three crossings up, down, up: the third has just been counted
\* as the second reversal.
C19_Witness ==
    /\ pc = "conf"
    /\ response_code = INCREASE
    /\ stairs[index].nData = 6
    /\ stairs[index].correctCounter = 0
    /\ stairs[index].currentDirection = "up"
    /\ stairs[index].nReversals = 2

\* consecutiveUp and consecutiveDown of the specification, read off the run
\* counter: results of 0 in a row count below zero, results of 1 above.
ConsecUp(s) == IF s.correctCounter < 0 THEN -s.correctCounter ELSE 0

ConsecDown(s) == IF s.correctCounter > 0 THEN s.correctCounter ELSE 0

\* C20: a directional response adds one to trialsRun and to the matching
\* consecutive counter and zeroes the other; the value moves only when the
\* matching counter reaches nUp or nDown, then by stepSize (or up to the
\* bound), and both counters are zero afterwards; in every other step the
\* value stays.  Between calls both counters are below their thresholds, and
\* after a single response the value is still the start value.
C20_ApplyResponse ==
    /\ [](\A k \in Stairs :
            /\ ConsecUp(stairs[k]) < NUp
            /\ ConsecDown(stairs[k]) < NDown
            /\ stairs[k].nData <= 1 => stairs[k].nextIntensity = StartVals[k])
    /\ [][\A k \in Stairs :
            LET s == stairs[k]
                t == stairs'[k]
                up == response_code' = INCREASE
                m == (IF up THEN ConsecUp(s) ELSE ConsecDown(s)) + 1
            IN  IF k = index /\ pc = "trial" /\ response_code' # REPEAT
                THEN /\ t.nData = s.nData + 1
                     /\ IF m >= (IF up THEN NUp ELSE NDown)
                        THEN /\ ConsecUp(t) = 0 /\ ConsecDown(t) = 0
                             /\ t.nextIntensity =
                                  IF up
                                  THEN (IF s.nextIntensity + StepSize > MaxVal
                                        THEN MaxVal ELSE s.nextIntensity + StepSize)
                                  ELSE (IF s.nextIntensity - StepSize < MinVal
                                        THEN MinVal ELSE s.nextIntensity - StepSize)
                        ELSE /\ t.nextIntensity = s.nextIntensity
                             /\ (IF up THEN ConsecUp(t) ELSE ConsecDown(t)) = m
                             /\ (IF up THEN ConsecDown(t) ELSE ConsecUp(t)) = 0
                ELSE /\ t.nData = s.nData
                     /\ t.nextIntensity = s.nextIntensity
                     /\ t.correctCounter = s.correctCounter]_vars

\* C20 witness: after a step up, a single 'after' answer: its counter stands
\* at 1, the other at 0, and the value has not moved.
C20_Witness ==
    /\ pc = "conf"
    /\ response_code = DECREASE
    /\ stairs[index].nData = 3
    /\ stairs[index].currentDirection = "up"
    /\ stairs[index].nextIntensity = StartVals[index] + StepSize
    /\ ConsecDown(stairs[index]) = 1
    /\ ConsecUp(stairs[index]) = 0

\* C21: next() only reads: the call hands out the staircase's current value
\* (the start value while no response has been applied) and leaves value,
\* direction, run counter, reversals, counted trials and finished of every
\* staircase as they were; called again after a trial without addResponse
\* (a repeated trial) it hands out the same value again.
C21_NextIsPureRead ==
    [][(pc = "loop" /\ pc' = "trial")
        => /\ current_delay' = stairs[index].nextIntensity
           /\ stairs[index].nData = 0 => current_delay' = StartVals[index]
           /\ (trial > 0 /\ response_code = REPEAT) => current_delay' = current_delay
           /\ \A k \in Stairs :
                /\ Engine(stairs'[k]) = Engine(stairs[k])
                /\ stairs'[k].correctCounter = stairs[k].correctCounter
                /\ stairs'[k].finished = stairs[k].finished]_vars

\* C21 witness: the third next() in a row with no response applied in between.
C21_Witness ==
    /\ pc = "trial"
    /\ trial = 2
    /\ response_code = REPEAT
    /\ stairs[index].nIntensities = 3
    /\ stairs[index].nData = 0
    /\ current_delay = StartVals[index]

\* C22: a trial returns ('before', 0), ('same time', -1) or ('after', 1);
\* addResponse is called exactly when the code is not -1, with that code, so
\* the responses a staircase holds are 0 and 1 only; 'before' never lowers the
\* value and turns the direction to 'up' only, 'after' never raises it and
\* turns the direction to 'down' only.
C22_ResponseCoding ==
    /\ [](pc = "conf"
            => <<button, response_code>>
                 \in {<<"before", 0>>, <<"same time", -1>>, <<"after", 1>>})
    /\ [](\A k \in Stairs : stairs[k].nData > 0 => stairs[k].lastData \in {0, 1})
    /\ [][(pc = "trial" /\ pc' = "conf")
            => LET s == stairs[index]
                   t == stairs'[index]
               IN  /\ (t.nData # s.nData) <=> (response_code' # -1)
                   /\ response_code' = -1 => t = s
                   /\ response_code' # -1
                        => /\ t.nData = s.nData + 1
                           /\ t.lastData = response_code'
                   /\ button' = "before"
                        => /\ t.nextIntensity >= s.nextIntensity
                           /\ t.currentDirection \in {s.currentDirection, "up"}
                   /\ button' = "after"
                        => /\ t.nextIntensity <= s.nextIntensity
                           /\ t.currentDirection \in {s.currentDirection, "down"}]_vars

\* C22 witness: 'before' answers have taken a staircase up and 'after'
\* answers have then turned it down.
C22_Witness ==
    /\ pc = "conf"
    /\ button = "after"
    /\ response_code = 1
    /\ stairs[index].lastData = 1
    /\ stairs[index].currentDirection = "down"
    /\ stairs[index].nReversals = 1
    /\ stairs[index].nextIntensity = StartVals[index]

C24_PauseBetween ==
    /\ [](pc = "between" => (index < NumStairs /\ logCount[index] = NTrials))
    /\ [][/\ index' # index
              => (pc = "between" /\ pc' = "loop" /\ index' = index + 1 /\ trial' = 0)
          /\ (pc' = "between" /\ pc # "between") => (pc = "loop" /\ index < NumStairs)
          /\ (pc' = "post" /\ pc # "post") => (pc = "loop" /\ index = NumStairs)
          /\ (pc = "loop" /\ pc' \notin {"loop", "trial"})
              => pc' = (IF index < NumStairs THEN "between" ELSE "post")]_vars

\* C24 witness: the session waits for ENTER after the last trial of the
\* first staircase; the second has not started.
C24_Witness ==
    /\ pc = "between"
    /\ index = 1
    /\ logCount[1] = NTrials
    /\ stairs[2].nIntensities = 0

\* C25: training runs at most 20 trials, each followed by a confidence and
\* one 'Training' row numbered in order; on 'stop' training is over, and on
\* 'again' the loop stands at a next preset delay, which is run.
C25_Training ==
    /\ trainCount <= NTrain
    /\ pc \in {"train", "train_conf"} => trainCount = trainIndex
    /\ pc = "train_ask" => trainCount = trainIndex + 1
    /\ lastRow.name = "Training" => lastRow.trial = trainCount
    /\ pc = "train" => trainIndex < NTrain

\* The phase a position of run_s_hdt belongs to, and the phase a row of the
\* log comes from (its first cell).
PhaseOf(p) ==
    CASE p = "start" -> 0
      [] p \in {"train", "train_conf", "train_ask"} -> 1
      [] p \in {"loop", "trial", "conf", "between"} -> 2
      [] OTHER -> 3

RowPhase(name) ==
    CASE name \in {"Participant ID", "Staircase_name"} -> 0
      [] name = "Training" -> 1
      [] name = "Post_task_question" -> 3
      [] OTHER -> 2

\* C26: the session goes through training, staircases and questionnaire in
\* that order and never back; in the log every 'Training' row comes before
\* every staircase row and every staircase row before every
\* 'Post_task_question' row, and each row is written in its own phase.
C26_PhaseOrder ==
    /\ [][PhaseOf(pc') >= PhaseOf(pc)]_vars
    /\ [](\A j \in 1..(Len(log) - 1) :
            RowPhase(log[j].name) <= RowPhase(log[j + 1].name))
    /\ [](log # << >> => RowPhase(log[Len(log)].name) <= PhaseOf(pc))

\* C26 witness: the questionnaire is being logged after training rows and
\* the rows of all staircases.
C26_Witness ==
    /\ pc = "post"
    /\ question = 2
    /\ trainCount = 3
    /\ Len(log) = 2 + 3 + NumStairs * NTrials + 2
    /\ log[3].name = "Training"
    /\ log[6].name = StairNames[1]
    /\ log[Len(log)].name = "Post_task_question"

\* C27: a staircase is changed only by the trials of its own turn: no step of
\* training, pause or questionnaire and no trial of another staircase touches
\* it, and until its first trial begins it is as constructed: start value,
\* direction 'start', counters zero, not finished.
C27_Independent ==
    /\ [][\A k \in Stairs :
            stairs'[k] # stairs[k] => (k = index /\ pc \in {"loop", "trial"})]_vars
    /\ [](\A k \in Stairs :
            (\/ PhaseOf(pc) < 2
             \/ k > index
             \/ k = index /\ pc = "loop" /\ trial = 0)
                => stairs[k] = NewStair(StartVals[k]))

\* C27 witness: the second staircase stands untouched at the head of its
\* first trial, after training and after a first staircase that moved.
C27_Witness ==
    /\ index = 2
    /\ pc = "loop"
    /\ trial = 0
    /\ trainCount >= 2
    /\ stairs[1].nextIntensity # StartVals[1]
    /\ stairs[1].nReversals > 0
    /\ stairs[2] = NewStair(StartVals[2])

\* C28: the log only grows at its end: the participant row and the column
\* row are written once, first, and occur nowhere later; every step leaves
\* the rows written so far as they are and appends at most one (the two
\* header rows together); the file object is closed between any two writes.
C28_AppendOnly ==
    /\ [][\/ log' = log
          \/ pc = "start" /\ log = << >> /\ log' = HeaderRows
          \/ /\ pc # "start"
             /\ Len(log') = Len(log) + 1
             /\ SubSeq(log', 1, Len(log)) = log]_vars
    /\ [](pc # "start"
            => /\ Len(log) >= 2
               /\ SubSeq(log, 1, 2) = HeaderRows
               /\ \A j \in 3..Len(log) :
                    log[j].name \notin {"Participant ID", "Staircase_name"})
    /\ [](~csvOpen)

\* C28 witness: a whole session has been logged: header rows, 20 training
\* rows, 15 rows for each staircase and the three questions.
C28_Witness ==
    /\ pc = "done"
    /\ trainCount = NTrain
    /\ Len(log) = 2 + NTrain + NumStairs * NTrials + Len(QuestionLabels)
    /\ log[2 + NTrain].name = "Training"
    /\ log[2 + NTrain].trial = NTrain

\* C29: no staircase is given more than 15 trials, repeated trials counted:
\* values handed out, rows and the trial in progress stay within nTrials, and
\* a trial is in progress only at a loop index below nTrials, finished or not.
C29_AtMostMaxTrials ==
    /\ \A k \in Stairs :
        /\ stairs[k].nIntensities <= NTrials
        /\ logCount[k] + InFlight(k) <= NTrials
    /\ trial <= NTrials
    /\ pc \in {"trial", "conf"} => trial < NTrials

\* C29 witness: the loop of a staircase has used its 15 iterations, some of
\* them on repeated trials, and the staircase is not finished.
C29_Witness ==
    /\ pc = "loop"
    /\ trial = NTrials
    /\ stairs[index].nIntensities = NTrials
    /\ stairs[index].nData < NTrials
    /\ stairs[index].nData > 0
    /\ ~stairs[index].finished

\* The rows of staircase k among the first j rows of the log.
RowsOf(k, j) == {i \in 1..j : log[i].name = StairNames[k]}

\* C30: the Trial cell of a staircase's rows counts its administered trials,
\* repeated ones included: the j-th row written for a staircase carries j, so
\* the numbers run 1, 2, 3, ... without gap or duplicate, and the last one is
\* the number of trials the staircase has been given.
C30_TrialIndex ==
    /\ [][\A k \in Stairs :
            logCount'[k] # logCount[k]
                => /\ lastRow'.name = StairNames[k]
                   /\ lastRow'.trial = logCount[k] + 1
                   /\ log'[Len(log')] = Cells(lastRow')]_vars
    /\ [](\A j \in 1..Len(log) : \A k \in Stairs :
            log[j].name = StairNames[k]
                => log[j].trial = Cardinality(RowsOf(k, j)))
    /\ [](\A k \in Stairs :
            /\ Cardinality(RowsOf(k, Len(log))) = logCount[k]
            /\ logCount[k] + InFlight(k) = stairs[k].nIntensities)

\* C30 witness: the row of a repeated second trial is numbered 2 and the row
\* after it 3, while the staircase has counted two responses.
C30_Witness ==
    /\ pc = "loop"
    /\ index = 1
    /\ Len(log) = 5
    /\ log[4] = [name |-> StairNames[1], trial |-> 2]
    /\ log[5] = [name |-> StairNames[1], trial |-> 3]
    /\ lastRow.trial = 3
    /\ stairs[1].nData = 2
    /\ stairs[1].lastData = 1

\* ---------------------------------------------------------------------------
\* Whole sessions in which nobody keeps the program waiting: every prompt is
\* answered, every confidence confirmed, every pause ended with ENTER and every
\* stimulus sequence acknowledged, so each step of run_s_hdt that can be taken
\* is taken in the end.
\* ---------------------------------------------------------------------------

FairSession ==
    /\ WF_vars(CreateLog)
    /\ WF_vars(TrainTrial)
    /\ WF_vars(TrainConfidence)
    /\ WF_vars(TrainAsk)
    /\ WF_vars(TrainEnd)
    /\ WF_vars(BeginTrial)
    /\ WF_vars(Respond)
    /\ WF_vars(Confidence)
    /\ WF_vars(LoopExit)
    /\ WF_vars(Continue)
    /\ WF_vars(PostQuestion)
    /\ WF_vars(Finish)

SpecSessionFair == InitSession /\ [][NextSession]_vars /\ FairSession

\* The session is complete: the three questionnaire rows are in the log and
\* the window is closed.
Completed ==
    /\ pc = "done"
    /\ question = Len(QuestionLabels)
    /\ Len(log) >= Len(QuestionLabels)
    /\ \A q \in 1..Len(QuestionLabels) :
        LET row == log[Len(log) - Len(QuestionLabels) + q]
        IN  row.name = "Post_task_question" /\ row.trial = QuestionLabels[q]
    /\ ~winOpen

\* C31: when every prompt is answered, every confidence confirmed, every pause
\* ended and every stimulus acknowledged, the session reaches completion
\* (questionnaire logged, window closed) and stays there, after at most 20
\* training trials and 15 trials in each staircase, whatever the responses are,
\* 'same time' throughout included.
C31_Completes ==
    /\ <>[]Completed
    /\ [](/\ trainCount <= NTrain
          /\ \A k \in Stairs : stairs[k].nIntensities <= NTrials)

\* A completed session in which every response of every staircase was 'same
\* time': no response reached a staircase, and each ran its 15 trials.
C31_Witness ==
    /\ Completed
    /\ \A k \in Stairs :
        /\ script[k] = "same time"
        /\ stairs[k].nData = 0
        /\ logCount[k] = NTrials

\* The 'Training' rows of the log.
TrainingRows == {j \in 1..Len(log) : log[j].name = "Training"}

====
